---- MODULE Spec2Model ----
(***************************************************************************)
(* Model of memgpt/server/rest_api/openai_assistants/assistants.py: the    *)
(* OpenAI-assistants compatible router of MemGPT.  A thread is a MemGPT    *)
(* agent, a message is an entry of the agent's message history, a run is   *)
(* one synchronous agent.step().                                           *)
(*                                                                         *)
(* Each handler is one atomic action.  The handlers are plain `def`s that  *)
(* make at most one mutating call on the server (create_agent,             *)
(* _append_to_messages, step), so a handler is linearised at that call.    *)
(* A request is served, its response is held in `last`, and Deliver hands  *)
(* it to the client before the next request is served.                     *)
(* The free name user_id the handlers read is the ambient caller identity; *)
(* it is taken to be bound, since no thread can exist otherwise.           *)
(*                                                                         *)
(* SyncServer, Agent and the recall storage are not part of the source     *)
(* file; the operators that stand for them are modelled from the           *)
(* specification's collaborator interfaces (section 6).                    *)
(***************************************************************************)
EXTENDS Integers, Sequences, FiniteSets, TLC

VARIABLES
    agents,       \* server: agent id -> [id, created_at]       (the threads)
    messages,     \* server: agent id -> message history, in insertion order
    now,          \* get_utc_time(), in clock ticks
    nextMsg,      \* number of Message objects constructed so far (fresh ids)
    ops,          \* number of requests and clock ticks that changed the state
    last,         \* the request just served and its response, until it is delivered
    stepCalls,    \* history: agent id -> user_message argument of each step()
    runRequests,  \* history: agent id -> number of create_run requests for it
    log,          \* history: agent id -> handlers that appended to its history
    issued,       \* history: Thread objects returned by create_thread
    sent          \* history: each create_message request with the OpenAIMessage returned

vars == <<agents, messages, now, nextMsg, ops, last, stepCalls, runRequests, log, issued, sent>>

----------------------------------------------------------------------------
(* Bound of the model *)

MaxOps == 4             \* state-changing requests and clock ticks in a run

\* Clock ticks in one second: created_at is a datetime, int(x.timestamp())
\* keeps its whole seconds
TicksPerSecond == 2

(* Program constants *)

DefaultLimit == 1000    \* list_messages: limit = Query(1000)
HTTP_200 == 200
HTTP_404 == 404         \* HTTPException(status_code=404, ...)
HTTP_405 == 405
HTTP_500 == 500
DEFAULT_PRESET == "DEFAULT_PRESET"

----------------------------------------------------------------------------
(* Identifiers: uuid.UUID(s) and str(u) *)


None == <<"none", 0>>
Malformed == <<"malformed", 0>>

\* str(u): the canonical hyphenated lower-case form
StrUUID(u) == <<"canonical", u>>

\* uuid.UUID(s) accepts the canonical form and the 32-digit hex form
WellFormed(s) == s[1] \in {"canonical", "hex"}

\* uuid.UUID(s) for a well-formed s
UUIDParse(s) == s[2]

\* int(dt.timestamp()): whole seconds, truncated
Timestamp(t) == t \div TicksPerSecond

----------------------------------------------------------------------------
(* The router: the routes in the order the decorators register them *)

Route(h, m, p, reg) == [handler |-> h, method |-> m, path |-> p, registered |-> reg]

\* Every route the source declares.  `registered` is FALSE for the one
\* declaration whose router.get(...) is a bare call and decorates nothing.
Declared ==
    << Route("create_assistant", "POST", "/assistants", TRUE),
       Route("create_assistant_file", "POST", "/assistants/{assistant_id}/files", TRUE),
       Route("list_assistants", "GET", "/assistants", TRUE),
       Route("list_assistant_files", "GET", "/assistants/{assistant_id}/files", TRUE),
       Route("retrieve_assistant", "GET", "/assistants/{assistant_id}", TRUE),
       Route("retrieve_assistant_file", "GET", "/assistants/{assistant_id}/files/{file_id}", TRUE),
       Route("modify_assistant", "POST", "/assistants/{assistant_id}", TRUE),
       Route("delete_assistant", "DELETE", "/assistants/{assistant_id}", TRUE),
       Route("delete_assistant_file", "DELETE", "/assistants/{assistant_id}/files/{file_id}", TRUE),
       Route("create_thread", "POST", "/threads", TRUE),
       Route("retrieve_thread", "GET", "/threads/{thread_id}", TRUE),
       Route("modify_thread", "GET", "/threads/{thread_id}", TRUE),
       Route("delete_thread", "DELETE", "/threads/{thread_id}", TRUE),
       Route("create_message", "POST", "/threads/{thread_id}/messages", TRUE),
       Route("list_messages", "GET", "/threads/{thread_id}/messages", TRUE),
       Route("retrieve_message", "GET", "/threads/{thread_id}/messages/{message_id}", FALSE),
       Route("retrieve_message_file", "GET", "/threads/{thread_id}/messages/{message_id}/files/{file_id}", TRUE),
       Route("modify_message", "POST", "/threads/{thread_id}/messages/{message_id}", TRUE),
       Route("create_run", "POST", "/threads/{thread_id}/runs", TRUE),
       Route("create_thread_and_run", "POST", "/threads/runs", TRUE),
       Route("list_runs", "GET", "/threads/{thread_id}/runs", TRUE),
       Route("list_run_steps", "GET", "/threads/{thread_id}/runs/{run_id}/steps", TRUE),
       Route("retrieve_run", "GET", "/threads/{thread_id}/runs/{run_id}", TRUE),
       Route("retrieve_run_step", "GET", "/threads/{thread_id}/runs/{run_id}/steps/{step_id}", TRUE),
       Route("modify_run", "POST", "/threads/{thread_id}/runs/{run_id}", TRUE),
       Route("submit_tool_outputs_to_run", "POST", "/threads/{thread_id}/runs/{run_id}/submit_tool_outputs", TRUE),
       Route("cancel_run", "POST", "/threads/{thread_id}/runs/{run_id}/cancel", TRUE) >>

Routes == SelectSeq(Declared, LAMBDA r : r.registered)

\* The operations a client can ask for, each by the route declared for it
Operations == {Declared[i].handler : i \in DOMAIN Declared}

RouteOf(op) == CHOOSE r \in {Declared[i] : i \in DOMAIN Declared} : r.handler = op

\* The handlers whose body is `raise HTTPException(status_code=404, ...)`
StubHandlers ==
    { "list_assistants", "list_assistant_files", "retrieve_assistant",
      "retrieve_assistant_file", "modify_assistant", "delete_assistant",
      "delete_assistant_file", "modify_thread", "delete_thread",
      "retrieve_message_file", "modify_message", "create_thread_and_run",
      "list_runs", "list_run_steps", "retrieve_run", "retrieve_run_step",
      "modify_run", "submit_tool_outputs_to_run", "cancel_run" }

\* A path template matches the request path; the literal path /threads/runs
\* is also an instance of /threads/{thread_id}
PathMatches(template, path) ==
    \/ template = path
    \/ template = "/threads/{thread_id}" /\ path = "/threads/runs"

\* The first route matching path and method answers; a path that matches
\* under another method only is answered 405
Dispatch(method, path) ==
    LET full == {i \in DOMAIN Routes :
                    PathMatches(Routes[i].path, path) /\ Routes[i].method = method}
        partial == {i \in DOMAIN Routes : PathMatches(Routes[i].path, path)}
    IN  IF full # {}
        THEN Routes[CHOOSE i \in full : \A j \in full : i <= j].handler
        ELSE IF partial # {} THEN "method_not_allowed" ELSE "no_route"

\* The handler that answers a request for operation op
Served(op) == Dispatch(RouteOf(op).method, RouteOf(op).path)

\* The routing table, worked out once
ServedBy == [op \in Operations |-> Served(op)]

\* The operations whose requests handler h answers
Requests(h) == {op \in Operations : ServedBy[op] = h}

StubRequests == {op \in Operations : ServedBy[op] \in StubHandlers}

----------------------------------------------------------------------------
(* The server behind the router: SyncServer, Agent, recall storage *)

NoUUID == 0             \* the Python None passed where a uuid.UUID may be

\* server.get_agent / server._get_or_load_agent find the agent
AgentExists(u) == u \in DOMAIN agents

\* server.create_agent(user_id): a new agent, created now, with no history.
\* uuid4 identifiers are interchangeable, so they are handed out in order.
NewAgentId == Len(agents) + 1

\* Message(user_id, agent_id, role, text): a fresh id, created now
NewMessage(n, role, text) == [id |-> n, created_at |-> now, role |-> role, text |-> text]

\* agent._append_to_messages(msgs)
AppendToMessages(history, msgs) == history \o msgs

\* How many messages one agent.step() can add when it completes, and how
\* many it can have added when it raises (its effects are not transactional)
StepOutputs == {1, 2}
StepPartialOutputs == {0, 1}

\* agent.step(user_message=None): no new input
NoUserMessage == "<None>"

\* The messages agent.step(user_message) adds: the input, when there is one,
\* then k outputs; the new Message objects take the ids after n
StepMessages(n, k, user_message) ==
    LET input == IF user_message = NoUserMessage
                 THEN <<>>
                 ELSE <<[role |-> "user", text |-> user_message]>>
        all == input \o [i \in 1..k |-> [role |-> "assistant", text |-> "reply"]]
    IN  [i \in 1..Len(all) |-> NewMessage(n + i, all[i].role, all[i].text)]

\* The recall storage's order: by created_at, ties by insertion order.
\* Before(h, i, j): entry i of history h is read before entry j.
Before(h, i, j) ==
    \/ h[i].created_at < h[j].created_at
    \/ h[i].created_at = h[j].created_at /\ i < j

\* The history sorted in that order
Sorted(h) ==
    [k \in 1..Len(h) |->
        h[CHOOSE i \in 1..Len(h) :
            Cardinality({j \in 1..Len(h) : Before(h, j, i)}) = k - 1]]

Reverse(q) == [k \in 1..Len(q) |-> q[Len(q) + 1 - k]]

Take(q, n) == IF Len(q) <= n THEN q ELSE SubSeq(q, 1, n)

\* Position of the message with identifier id in the sorted sequence q
PosOf(q, id) == CHOOSE k \in 1..Len(q) : q[k].id = id

\* server.get_agent_recall_cursor(agent_id, limit, after, before,
\* order_by="created_at", reverse): at most limit records of the open
\* interval (after, before), traversed forwards, or backwards when reverse
ReadRange(h, limit, after, before, reverse) ==
    LET q == Sorted(h)
        lo == IF after = NoUUID THEN 0 ELSE PosOf(q, after)
        hi == IF before = NoUUID THEN Len(q) + 1 ELSE PosOf(q, before)
        inside == IF hi - lo <= 1 THEN <<>> ELSE SubSeq(q, lo + 1, hi - 1)
    IN  Take(IF reverse THEN Reverse(inside) ELSE inside, limit)

----------------------------------------------------------------------------
(* Shapes returned to the client *)

\* OpenAIThread(id=str(agent.id), created_at=int(agent.created_at.timestamp()))
OpenAIThread(agent) == [id |-> StrUUID(agent.id), created_at |-> Timestamp(agent.created_at)]

OpenAIMessageAsUser(m, u) ==
    [id |-> StrUUID(m.id), created_at |-> Timestamp(m.created_at),
     content |-> <<m.text>>, role |-> "user", thread_id |-> StrUUID(u),
     assistant_id |-> DEFAULT_PRESET]

\* OpenAIMessage(id=str(m.id), created_at=int(...), content=[Text(text=m.text)],
\*               role=m.role, thread_id=str(m.agent_id), assistant_id=DEFAULT_PRESET)
OpenAIMessage(m, u) ==
    [id |-> StrUUID(m.id), created_at |-> Timestamp(m.created_at),
     content |-> <<m.text>>, role |-> m.role, thread_id |-> StrUUID(u),
     assistant_id |-> DEFAULT_PRESET]

\* OpenAIRun(id=run_id, created_at=create_time, thread_id=str(agent_id),
\*           status="completed", expires_at=create_time, ...)
OpenAIRun(run_id, u) ==
    [id |-> StrUUID(run_id), created_at |-> Timestamp(now), thread_id |-> StrUUID(u),
     assistant_id |-> DEFAULT_PRESET, status |-> "completed",
     expires_at |-> Timestamp(now)]

\* What a handler hands back: an outcome, its HTTP status and a body
Response(outcome, status, body) == [outcome |-> outcome, status |-> status, body |-> body]

Ok(body) == Response("ok", HTTP_200, body)
\* uuid.UUID(s) raises ValueError on a malformed s
InvalidArgument == Response("InvalidArgument", HTTP_500, <<>>)
\* uuid.UUID(None) raises TypeError
TypeError == Response("TypeError", HTTP_500, <<>>)
\* json_messages[0] on an empty list raises IndexError
IndexError == Response("IndexError", HTTP_500, <<>>)
\* the server finds no such agent
NotFound == Response("NotFound", HTTP_404, <<>>)
\* agent.step() raised
EngineFailure == Response("EngineFailure", HTTP_500, <<>>)
\* raise HTTPException(status_code=404, detail="Not yet implemented (coming soon)")
NotImplemented == Response("NotImplemented", HTTP_404, <<>>)
\* the router finds the path under another method only
MethodNotAllowed == Response("MethodNotAllowed", HTTP_405, <<>>)

----------------------------------------------------------------------------
(* Requests *)

MessageRequests == {[role |-> "user", content |-> "hello"],
                    [role |-> "system", content |-> "note"]}

Limits == {1, 2, DefaultLimit}

Orders == {"asc", "desc"}

\* Thread identifiers a client sends: the canonical form of every agent's
\* UUID and of one that is no agent's, a hex form, and a string that is no UUID
ThreadIds == {StrUUID(u) : u \in 1..(Len(agents) + 1)} \cup {<<"hex", 1>>, Malformed}

\* Whether thread_id is the canonical identifier of an agent
Canonical(thread_id) == thread_id[1] = "canonical" /\ AgentExists(UUIDParse(thread_id))

\* Cursors a client sends with list_messages: none, a string that is no UUID,
\* or the identifier of a message of that thread
Cursors(thread_id) ==
    {None, Malformed} \cup
    (IF Canonical(thread_id)
     THEN {StrUUID(messages[UUIDParse(thread_id)][i].id) :
              i \in DOMAIN messages[UUIDParse(thread_id)]}
     ELSE {})

\* The limit and order sent with list_messages: every combination on an
\* agent's canonical identifier, the defaults on the other identifiers
ListLimits(thread_id) == IF Canonical(thread_id) THEN Limits ELSE {DefaultLimit}

ListOrders(thread_id) == IF Canonical(thread_id) THEN Orders ELSE {"asc"}

NoParams ==
    [thread_id |-> None, role |-> "", content |-> "", limit |-> 0, order |-> "",
     after |-> None, before |-> None]

\* The record of one request: the operation asked for, the handler that
\* answered, the request's parameters and the response
Answer(op, handler, params, resp) ==
    [op |-> op, handler |-> handler, thread_id |-> params.thread_id,
     role |-> params.role, content |-> params.content, limit |-> params.limit,
     order |-> params.order, after |-> params.after, before |-> params.before,
     outcome |-> resp.outcome, status |-> resp.status, body |-> resp.body]

\* No request is being answered
Idle == Answer("none", "none", NoParams, [outcome |-> "none", status |-> 0, body |-> <<>>])

----------------------------------------------------------------------------
(* Handlers *)

Init ==
    /\ agents = <<>>
    /\ messages = <<>>
    /\ now = 0
    /\ nextMsg = 0
    /\ ops = 0
    /\ last = Idle
    /\ stepCalls = <<>>
    /\ runRequests = <<>>
    /\ log = <<>>
    /\ issued = {}
    /\ sent = {}

\* get_utc_time() advances, by less than a second or by a whole one
Tick ==
    /\ last = Idle
    /\ ops < MaxOps
    /\ \E d \in 1..TicksPerSecond : now' = now + d
    /\ ops' = ops + 1
    /\ UNCHANGED <<agents, messages, nextMsg, last, stepCalls, runRequests, log, issued, sent>>

\* A handler that reads only
Reply(op, handler, params, resp) ==
    /\ last' = Answer(op, handler, params, resp)
    /\ UNCHANGED <<agents, messages, now, nextMsg, ops, stepCalls, runRequests, log, issued, sent>>

\* The response reaches the client
Deliver ==
    /\ last # Idle
    /\ last' = Idle
    /\ UNCHANGED <<agents, messages, now, nextMsg, ops, stepCalls, runRequests, log, issued, sent>>

\* create_assistant: a descriptor of the default preset, nothing stored
create_assistant ==
    /\ last = Idle
    /\ \E op \in Requests("create_assistant") :
        Reply(op, "create_assistant", NoParams,
              Ok(<<[id |-> DEFAULT_PRESET, created_at |-> Timestamp(now)]>>))

\* create_assistant_file: a descriptor, nothing stored
create_assistant_file ==
    /\ last = Idle
    /\ \E op \in Requests("create_assistant_file") :
        Reply(op, "create_assistant_file", NoParams,
              Ok(<<[assistant_id |-> DEFAULT_PRESET, created_at |-> Timestamp(now)]>>))

\* Every handler that only raises HTTPException(status_code=404)
not_implemented ==
    /\ last = Idle
    /\ \E op \in StubRequests :
        Reply(op, ServedBy[op], NoParams, NotImplemented)

\* A request no registered route answers
unrouted ==
    /\ last = Idle
    /\ \E op \in Requests("method_not_allowed") :
        Reply(op, "none", NoParams, MethodNotAllowed)

CreateThreadResponseRaw(agent_state) ==
    [id |-> StrUUID(agent_state.id), created_at |-> agent_state.created_at]

\* create_thread: the Thread of agent_state, the agent server.create_agent made
CreateThreadResponse(agent_state) == OpenAIThread(agent_state)

create_thread ==
    /\ last = Idle
    /\ ops < MaxOps
    /\ \E op \in Requests("create_thread") :
        LET agent_state == [id |-> NewAgentId, created_at |-> now] IN
        /\ agents' = Append(agents, agent_state)
        /\ messages' = Append(messages, <<>>)
        /\ stepCalls' = Append(stepCalls, <<>>)
        /\ runRequests' = Append(runRequests, 0)
        /\ log' = Append(log, <<>>)
        /\ last' = Answer(op, "create_thread", NoParams,
                          Ok(<<CreateThreadResponse(agent_state)>>))
        /\ issued' = issued \cup {CreateThreadResponse(agent_state)}
        /\ ops' = ops + 1
        /\ UNCHANGED <<now, nextMsg, sent>>

RetrieveThreadUnparsed(thread_id) ==
    IF ~WellFormed(thread_id) \/ ~AgentExists(UUIDParse(thread_id)) THEN NotFound
    ELSE Ok(<<OpenAIThread(agents[UUIDParse(thread_id)])>>)

\* retrieve_thread: server.get_agent(uuid.UUID(thread_id)) as a Thread
RetrieveThread(thread_id) ==
    IF ~WellFormed(thread_id) THEN InvalidArgument
    ELSE IF ~AgentExists(UUIDParse(thread_id)) THEN NotFound
    ELSE Ok(<<OpenAIThread(agents[UUIDParse(thread_id)])>>)

retrieve_thread ==
    /\ last = Idle
    /\ \E op \in Requests("retrieve_thread"), thread_id \in ThreadIds :
        Reply(op, "retrieve_thread", [NoParams EXCEPT !.thread_id = thread_id],
              RetrieveThread(thread_id))

CreateMessageHistoryPrepended(history, message) == <<message>> \o history

\* create_message: the history after agent._append_to_messages([message])
CreateMessageHistory(history, message) == AppendToMessages(history, <<message>>)

\* create_message: the step() calls it makes on the agent (none)
CreateMessageSteps == <<>>

create_message ==
    /\ last = Idle
    /\ \E op \in Requests("create_message"), thread_id \in ThreadIds,
          request \in MessageRequests :
        LET params == [NoParams EXCEPT !.thread_id = thread_id,
                                       !.role = request.role,
                                       !.content = request.content]
            u == UUIDParse(thread_id)
            message == NewMessage(nextMsg + 1, request.role, request.content)
        IN  IF ~WellFormed(thread_id)
            THEN Reply(op, "create_message", params, InvalidArgument)
            ELSE IF ~AgentExists(u)
            THEN Reply(op, "create_message", params, NotFound)
            ELSE /\ ops < MaxOps
                 /\ ops' = ops + 1
                 /\ messages' = [messages EXCEPT ![u] = CreateMessageHistory(@, message)]
                 /\ nextMsg' = nextMsg + 1
                 /\ stepCalls' = [stepCalls EXCEPT ![u] = @ \o CreateMessageSteps]
                 /\ log' = [log EXCEPT ![u] = Append(@, "create_message")]
                 /\ last' = Answer(op, "create_message", params,
                                   Ok(<<OpenAIMessage(message, u)>>))
                 /\ sent' = sent \cup {[request |-> request,
                                          response |-> OpenAIMessage(message, u)]}
                 /\ UNCHANGED <<agents, now, runRequests, issued>>

\* list_messages, line 319: after_uuid = uuid.UUID(after) if before else None
AfterUuid(after, before) ==
    IF before # None THEN [parsed |-> TRUE, arg |-> after]
                     ELSE [parsed |-> FALSE, arg |-> None]

\* list_messages, line 320: before_uuid = uuid.UUID(before) if before else None
BeforeUuid(after, before) ==
    IF before # None THEN [parsed |-> TRUE, arg |-> before]
                     ELSE [parsed |-> FALSE, arg |-> None]

\* uuid.UUID(arg) raises: TypeError on None, ValueError on a malformed string
UuidRaises(c) == c.parsed /\ (c.arg = None \/ ~WellFormed(c.arg))

UuidError(c) == IF c.arg = None THEN TypeError ELSE InvalidArgument

\* The bound handed to the server: a UUID, or None
UuidValue(c) == IF c.parsed THEN UUIDParse(c.arg) ELSE NoUUID

ReverseFlagNever(order) == FALSE

ReverseFlagInverted(order) == order # "desc"

\* list_messages, line 322: reverse = True if (order == "desc") else False
ReverseFlag(order) == order = "desc"

ListLimitDefault(limit) == DefaultLimit

\* list_messages, line 326: limit=limit
ListLimit(limit) == limit

\* list_messages: the bounded read of the agent's history, as OpenAIMessages
ListMessages(thread_id, limit, order, after, before) ==
    LET a == AfterUuid(after, before)
        b == BeforeUuid(after, before)
        u == UUIDParse(thread_id)
    IN  IF UuidRaises(a) THEN UuidError(a)
        ELSE IF UuidRaises(b) THEN UuidError(b)
        ELSE IF ~WellFormed(thread_id) THEN InvalidArgument
        ELSE IF ~AgentExists(u) THEN NotFound
        ELSE LET json_messages ==
                    ReadRange(messages[u], ListLimit(limit), UuidValue(a), UuidValue(b),
                              ReverseFlag(order))
             IN  IF json_messages = <<>>
                 THEN IndexError        \* print(json_messages[0]["text"])
                 ELSE Ok([i \in 1..Len(json_messages) |->
                            OpenAIMessage(json_messages[i], u)])

list_messages ==
    /\ last = Idle
    /\ \E op \in Requests("list_messages"), thread_id \in ThreadIds :
        \E limit \in ListLimits(thread_id), order \in ListOrders(thread_id),
           after \in Cursors(thread_id), before \in Cursors(thread_id) :
            Reply(op, "list_messages",
                  [NoParams EXCEPT !.thread_id = thread_id, !.limit = limit,
                                   !.order = order, !.after = after,
                                   !.before = before],
                  ListMessages(thread_id, limit, order, after, before))

\* create_run, line 399: run_id = str(uuid.uuid4()), kept nowhere; one value
\* stands for all of them
NewRunId == NoUUID

CreateRunStepsRetried == <<NoUserMessage, NoUserMessage>>

\* create_run, line 398: the step() calls it makes, each by its user_message
CreateRunSteps == <<NoUserMessage>>

CreateRunRaisedSwallowed(u) == Ok(<<OpenAIRun(NewRunId, u)>>)

\* create_run, line 398: nothing catches what agent.step raises, so the
\* exception is the response and lines 399-409 do not run
CreateRunRaised(u) == EngineFailure

create_run ==
    /\ last = Idle
    /\ \E op \in Requests("create_run"), thread_id \in ThreadIds :
        LET params == [NoParams EXCEPT !.thread_id = thread_id]
            u == UUIDParse(thread_id)
        IN  IF ~WellFormed(thread_id)
            THEN Reply(op, "create_run", params, InvalidArgument)
            ELSE IF ~AgentExists(u)
            THEN Reply(op, "create_run", params, NotFound)
            ELSE /\ ops < MaxOps
                 /\ ops' = ops + 1
                 /\ runRequests' = [runRequests EXCEPT ![u] = @ + 1]
                 /\ stepCalls' = [stepCalls EXCEPT ![u] = @ \o CreateRunSteps]
                 /\ \/ \E k \in StepOutputs :
                         LET out == StepMessages(nextMsg, k, CreateRunSteps[1]) IN
                         /\ messages' = [messages EXCEPT ![u] = AppendToMessages(@, out)]
                         /\ nextMsg' = nextMsg + Len(out)
                         /\ log' = [log EXCEPT ![u] = Append(@, "create_run")]
                         /\ last' = Answer(op, "create_run", params,
                                           Ok(<<OpenAIRun(NewRunId, u)>>))
                    \/ \E k \in StepPartialOutputs :
                         LET out == StepMessages(nextMsg, k, CreateRunSteps[1]) IN
                         /\ messages' = [messages EXCEPT ![u] = AppendToMessages(@, out)]
                         /\ nextMsg' = nextMsg + Len(out)
                         /\ log' = [log EXCEPT ![u] = Append(@, "step_raised")]
                         /\ last' = Answer(op, "create_run", params, CreateRunRaised(u))
                 /\ UNCHANGED <<agents, now, issued, sent>>

Next ==
    \/ Tick
    \/ Deliver
    \/ create_assistant
    \/ create_assistant_file
    \/ not_implemented
    \/ unrouted
    \/ create_thread
    \/ retrieve_thread
    \/ create_message
    \/ list_messages
    \/ create_run

Spec == Init /\ [][Next]_vars

----------------------------------------------------------------------------
(* Properties *)

\* The request in `last` names an existing agent
Resolved == WellFormed(last.thread_id) /\ AgentExists(UUIDParse(last.thread_id))

\* That agent
LastAgent == UUIDParse(last.thread_id)

\* A list_messages request with no cursor and a limit that covers the history
ListsWholeHistory ==
    /\ last.handler = "list_messages"
    /\ Resolved
    /\ last.after = None
    /\ last.before = None
    /\ last.limit >= Len(messages[LastAgent])

\* Index in history h of the message a returned OpenAIMessage r stands for
InsertionIndex(h, r) == CHOOSE i \in DOMAIN h : StrUUID(h[i].id) = r.id

\* C1: create_message on an existing thread adds exactly one message, with
\* the request's role and content, at the end of that agent's history, makes
\* no step() call, and leaves the messages already stored for that agent and
\* every other agent's history as they were.
C1_CreateMessagePureAppend ==
    [][ (last = Idle /\ last'.handler = "create_message" /\ last'.outcome = "ok") =>
        LET u == UUIDParse(last'.thread_id)
            n == Len(messages[u])
        IN  /\ Len(messages'[u]) = n + 1
            /\ \A i \in 1..n : messages'[u][i] = messages[u][i]
            /\ messages'[u][n + 1].role = last'.role
            /\ messages'[u][n + 1].text = last'.content
            /\ DOMAIN messages' = DOMAIN messages
            /\ \A v \in DOMAIN messages : v # u => messages'[v] = messages[v]
            /\ stepCalls' = stepCalls
            /\ agents' = agents ]_vars

C1_Witness ==
    /\ last.handler = "create_message"
    /\ last.outcome = "ok"
    /\ Len(messages[LastAgent]) >= 2
    /\ Len(agents) >= 2

\* C2: every message appended by create_message is returned by a later
\* list_messages on its thread with default order, no cursor and a limit of
\* at least the history's length, under the id create_message returned and
\* with the role and content that were submitted.
C2_RoundTrip ==
    (ListsWholeHistory /\ last.order = "asc") =>
        \A s \in sent :
            s.response.thread_id = StrUUID(LastAgent) =>
                /\ last.outcome = "ok"
                /\ \E i \in DOMAIN last.body :
                    /\ last.body[i].id = s.response.id
                    /\ last.body[i].role = s.request.role
                    /\ last.body[i].content = <<s.request.content>>

C2_Witness ==
    /\ ListsWholeHistory
    /\ last.order = "asc"
    /\ last.outcome = "ok"
    /\ Len(last.body) >= 2
    /\ \E s \in sent : s.response.thread_id = StrUUID(LastAgent) /\ s.request.role = "system"

\* Position, in the store's reading order, of the message a returned
\* OpenAIMessage r, or a cursor string c, names
Position(h, c) == PosOf(Sorted(h), UUIDParse(c))

\* C3: list_messages takes each cursor bound from its own parameter: a call
\* with `after` and without `before` returns only messages placed after the
\* `after` cursor, and a call with `before` and without `after` succeeds.
C3_CursorsIndependent ==
    (last.handler = "list_messages" /\ Resolved) =>
        /\ (WellFormed(last.after) /\ last.before = None /\ last.outcome = "ok") =>
              \A i \in DOMAIN last.body :
                  Position(messages[LastAgent], last.body[i].id)
                      > Position(messages[LastAgent], last.after)
        /\ (last.after = None /\ WellFormed(last.before)
              /\ Position(messages[LastAgent], last.before) > 1) =>
              last.outcome = "ok"

\* The operations the source leaves unimplemented
Unimplemented == StubHandlers

\* C4: a request for an unimplemented operation is answered by that
\* operation's own handler, with the NotImplemented outcome, under a status
\* other than the one that says a resource is missing.
C4_UnimplementedAlwaysNotImplemented ==
    last.op \in Unimplemented =>
        /\ last.handler = last.op
        /\ last.outcome = "NotImplemented"
        /\ last.status # NotFound.status

\* C5: retrieve_thread fails with InvalidArgument on a thread_id that is no
\* UUID and with NotFound on a UUID no agent was created with, and changes
\* neither the agents nor their messages.
C5_RetrieveThreadErrors ==
    [][ (last = Idle /\ last'.handler = "retrieve_thread") =>
        /\ ~WellFormed(last'.thread_id) => last'.outcome = "InvalidArgument"
        /\ (WellFormed(last'.thread_id) /\ ~AgentExists(UUIDParse(last'.thread_id)))
              => last'.outcome = "NotFound"
        /\ UNCHANGED <<agents, messages, nextMsg, stepCalls, runRequests>> ]_vars

C5_Witness ==
    /\ last.op = "retrieve_thread"
    /\ last.handler = "retrieve_thread"
    /\ last.outcome = "NotFound"
    /\ last.thread_id = StrUUID(Len(agents) + 1)
    /\ Len(agents) >= 1

\* C6: every create_run on an existing thread calls step() once on that
\* thread's agent, with no user message, and answers "completed" once the
\* step has returned; no other handler calls step(), so an agent has had as
\* many steps as create_run requests.
C6_OneStepPerRun ==
    /\ \A u \in DOMAIN agents :
        /\ Len(stepCalls[u]) = runRequests[u]
        /\ \A i \in DOMAIN stepCalls[u] : stepCalls[u][i] = NoUserMessage
    /\ (last.handler = "create_run" /\ last.outcome = "ok") =>
        /\ Len(last.body) = 1
        /\ last.body[1].status = "completed"
        /\ last.body[1].thread_id = StrUUID(LastAgent)
        /\ Len(stepCalls[LastAgent]) >= 1
        /\ log[LastAgent][Len(log[LastAgent])] = "create_run"

C6_Witness ==
    /\ last.handler = "create_run"
    /\ last.outcome = "ok"
    /\ runRequests[LastAgent] = 2
    /\ Len(messages[LastAgent]) >= 3

\* C7: list_messages with order "asc" returns created_at in non-decreasing
\* order, equal ones in insertion order; with order "desc", the same bounds
\* and a limit that covers the history, it returns the reverse of the "asc"
\* result.
C7_DescReversesAsc ==
    (last.handler = "list_messages" /\ Resolved /\ last.outcome = "ok") =>
        LET h == messages[LastAgent]
            asc == ListMessages(last.thread_id, last.limit, "asc", last.after, last.before)
        IN  /\ last.order = "asc" =>
                \A i, j \in DOMAIN last.body :
                    i < j =>
                        /\ last.body[i].created_at <= last.body[j].created_at
                        /\ last.body[i].created_at = last.body[j].created_at =>
                              InsertionIndex(h, last.body[i]) < InsertionIndex(h, last.body[j])
            /\ (last.order = "desc" /\ last.limit >= Len(h)) =>
                /\ asc.outcome = "ok"
                /\ last.body = Reverse(asc.body)

C7_Witness ==
    /\ last.handler = "list_messages"
    /\ last.outcome = "ok"
    /\ last.order = "desc"
    /\ last.limit >= Len(messages[LastAgent])
    /\ Len(last.body) >= 2
    /\ last.body[1].created_at > last.body[2].created_at

\* C8: list_messages with a positive limit never returns more than limit
\* messages, whatever the order and the cursors.
C8_LimitRespected ==
    (last.handler = "list_messages" /\ last.outcome = "ok" /\ last.limit > 0) =>
        Len(last.body) <= last.limit

C8_Witness ==
    /\ last.handler = "list_messages"
    /\ last.outcome = "ok"
    /\ Resolved
    /\ Len(last.body) = last.limit
    /\ Len(messages[LastAgent]) > last.limit
    /\ last.order = "desc"

\* C9: the Thread create_thread returns has the id of an agent that did not
\* exist before and exists from then on, and the created_at of that agent in
\* whole seconds; retrieve_thread on that id returns the same Thread whenever
\* it is called.
C9_ThreadIsAgent ==
    [][ /\ \A t \in issued' \ issued :
              /\ WellFormed(t.id)
              /\ UUIDParse(t.id) \notin DOMAIN agents
              /\ last'.body = <<t>>
        /\ \A t \in issued' :
              /\ UUIDParse(t.id) \in DOMAIN agents'
              /\ t.created_at = Timestamp(agents'[UUIDParse(t.id)].created_at)
              /\ (last'.handler = "retrieve_thread" /\ last'.thread_id = t.id) =>
                    /\ last'.outcome = "ok"
                    /\ last'.body = <<t>> ]_vars

C9_Witness ==
    /\ last.handler = "retrieve_thread"
    /\ last.outcome = "ok"
    /\ last.body[1] \in issued
    /\ last.body[1].created_at >= 1
    /\ agents[LastAgent].created_at > TicksPerSecond
    /\ now > agents[LastAgent].created_at

\* The ids create_message returned
SentIds == {s.response.id : s \in sent}

\* C10: on a thread whose first two changes are a create_message of
\* {user, hello} and a create_run, list_messages with order "asc" returns at
\* least two messages, in creation order, the user message before every
\* message the step produced.
C10_UserMessageBeforeRunOutput ==
    (/\ ListsWholeHistory
     /\ last.order = "asc"
     /\ Len(log[LastAgent]) >= 2
     /\ log[LastAgent][1] = "create_message"
     /\ log[LastAgent][2] = "create_run"
     /\ messages[LastAgent][1].role = "user"
     /\ messages[LastAgent][1].text = "hello") =>
        /\ last.outcome = "ok"
        /\ Len(last.body) >= 2
        /\ last.body[1].id \in SentIds
        /\ last.body[1].role = "user"
        /\ last.body[1].content = <<"hello">>
        /\ last.body[2].id \notin SentIds
        /\ \A i, j \in DOMAIN last.body :
              i < j => InsertionIndex(messages[LastAgent], last.body[i])
                         < InsertionIndex(messages[LastAgent], last.body[j])

C10_Witness ==
    /\ ListsWholeHistory
    /\ last.order = "asc"
    /\ last.outcome = "ok"
    /\ log[LastAgent] = <<"create_message", "create_run">>
    /\ messages[LastAgent][1].text = "hello"
    /\ Len(last.body) = 3

\* C11: a GET on /threads/{thread_id}/messages/{message_id} is answered by
\* retrieve_message, with the stored message or with NotFound.
C11_RetrieveMessageServed ==
    last.op = "retrieve_message" =>
        /\ last.handler = "retrieve_message"
        /\ last.outcome \in {"ok", "NotFound"}

\* The agent a create_message or create_run request names, when it names one
\* that exists before the request
Resolves(thread_id) == WellFormed(thread_id) /\ AgentExists(UUIDParse(thread_id))

\* C12: a create_run whose step() raises answers with an error and no Run,
\* having called step() once; a create_message or create_run on a thread_id
\* that names no existing agent fails, appends no message and calls no
\* step().
C12_FailuresSurfacedNoRetry ==
    [][ (last = Idle /\ last'.handler \in {"create_message", "create_run"}) =>
        IF Resolves(last'.thread_id)
        THEN LET u == UUIDParse(last'.thread_id) IN
             (last'.handler = "create_run"
                /\ log'[u][Len(log'[u])] = "step_raised") =>
                 /\ last'.outcome \notin {"ok", "none"}
                 /\ last'.status # HTTP_200
                 /\ last'.body = <<>>
                 /\ Len(stepCalls'[u]) = Len(stepCalls[u]) + 1
                 /\ runRequests'[u] = runRequests[u] + 1
        ELSE /\ last'.outcome \in {"InvalidArgument", "NotFound"}
             /\ last'.body = <<>>
             /\ UNCHANGED <<agents, messages, nextMsg, stepCalls, runRequests, log, sent>> ]_vars

C12_Witness ==
    /\ last.handler = "create_run"
    /\ last.outcome = "EngineFailure"
    /\ Len(stepCalls[LastAgent]) = 2
    /\ log[LastAgent][Len(log[LastAgent])] = "step_raised"
    /\ messages[LastAgent] # <<>>

\* C13: list_messages on an existing thread succeeds whatever the bounded
\* read returns, an empty result included, with at most limit messages.
C13_EmptyResultSucceeds ==
    (/\ last.handler = "list_messages"
     /\ Resolved
     /\ ~UuidRaises(AfterUuid(last.after, last.before))
     /\ ~UuidRaises(BeforeUuid(last.after, last.before))) =>
        /\ last.outcome = "ok"
        /\ Len(last.body) <= last.limit

====
